---- MODULE Spec2Model ----
(***************************************************************************)
(* Model of src/src/container.ts: the Container, Exec, ExecManager,        *)
(* ContainerFs and container-manager (default export) classes.  Every      *)
(* asynchronous method builds a call descriptor, hands it to modem.dial    *)
(* and settles a promise in dial's callback.  The modem (docker-modem) and *)
(* the daemon are external: the daemon's answer is a nondeterministic      *)
(* choice, the modem is modelled by the transport contract of the          *)
(* specification (section 4.1).                                            *)
(***************************************************************************)
EXTENDS Integers, Sequences, FiniteSets, TLC

\* ------------------------------------------------------------------ bounds
MaxHandles == 2     \* handles the caller keeps
MaxInFlight == 2    \* calls in flight at once
MaxList == 2        \* length of the array the daemon returns to list()
MaxChunks == 2      \* chunks of a byte stream

\* ------------------------------------------------------------- input values
Ids == {"a", "b"}

\* decoded JSON bodies (ContainerData reduced to two of its fields)
Bodies == {[Id |-> "a", State |-> "running"], [Id |-> "b", State |-> "paused"]}

\* `data: ContainerData` before any assignment, and `data: Object = {}`
UndefinedData == [undef |-> TRUE]
EmptyObject == [empty |-> TRUE]
\* `Warnings: Array<String> = []`
NoWarnings == [arr |-> << >>]

\* a chunk is a Buffer: a sequence of byte values
Chunks == {<<104>>, <<105, 10>>}

RECURSIVE SeqsUpTo(_, _)
SeqsUpTo(S, n) ==
  IF n = 0 THEN {<< >>}
  ELSE LET shorter == SeqsUpTo(S, n - 1)
       IN  shorter \cup {Append(s, x) : s \in {t \in shorter : Len(t) = n - 1}, x \in S}

Streams == SeqsUpTo(Chunks, MaxChunks)
Lists == SeqsUpTo(Bodies, MaxList)

\* query-option records: `given` is FALSE when the caller passes no argument;
\* a key the record does not hold reads as "undefined"
NoOpts == [given |-> FALSE, stream |-> "undefined", path |-> "undefined", container |-> "undefined"]
EmptyOpts == [NoOpts EXCEPT !.given = TRUE]
PlainOpts == [EmptyOpts EXCEPT !.path = "/etc", !.container = "zz"]
OptsChoices == {NoOpts, [EmptyOpts EXCEPT !.stream = "true"], PlainOpts}

\* ------------------------------------------------------------- operations
ExecOps == {"Exec.create", "Exec.start", "Exec.resize", "Exec.status"}
FsOps == {"ContainerFs.info", "ContainerFs.get", "ContainerFs.put"}
TransitionOps ==
  {"Container.start", "Container.stop", "Container.restart", "Container.kill",
   "Container.pause", "Container.unpause", "Container.rename", "Container.update"}
ContainerOps ==
  TransitionOps \cup
  {"Container.status", "Container.top", "Container.logs", "Container.changes",
   "Container.export", "Container.stats", "Container.resize", "Container.attach",
   "Container.wsattach", "Container.wait", "Container.delete", "Container.commit",
   "ExecManager.create"} \cup FsOps
ManagerOps == {"default.list", "default.create", "default.prune"}
Ops == ExecOps \cup ContainerOps \cup ManagerOps

\* methods declared without an options parameter
NoArgOps == {"Container.changes", "Container.pause", "Container.unpause", "Container.wait"}

\* `opts: any = {}`: a default parameter replaces a missing argument by a new {}
DefaultedOps ==
  {"Exec.start", "ContainerFs.get", "Container.export", "Container.start",
   "Container.attach", "Container.commit"}

\* --------------------------------------------------------- call descriptors
\* JavaScript truthiness of an option value (`!!opts.stream`, `!opts.stream`)
Truthy(v) == v \notin {"undefined", "false", ""}

\* the value the method body sees as `opts`
BoundOpts(op, arg) ==
  IF op \in NoArgOps THEN EmptyOpts
  ELSE IF op \in DefaultedOps /\ ~arg.given THEN EmptyOpts
  ELSE arg

\* `opts.container = this.id` (commit), no write for every other method
OptsAfterEntry(op, id, arg) ==
  IF op = "Container.commit" THEN [BoundOpts(op, arg) EXCEPT !.container = id]
  ELSE BoundOpts(op, arg)

\* the statusCodes object of each method: "true" accepts, another string is
\* the reason of the error
ExecCreateStatusCodes ==
  (200 :> "true" @@ 201 :> "true" @@ 404 :> "no such container"
    @@ 409 :> "container is paused" @@ 500 :> "server error")
ExecStartStatusCodes ==
  (200 :> "true" @@ 404 :> "no such exec instance" @@ 409 :> "container is paused")
ExecResizeStatusCodes ==
  (201 :> "true" @@ 404 :> "no such exec instance")
ExecStatusStatusCodes ==
  (200 :> "true" @@ 404 :> "no such exec instance" @@ 500 :> "server error")
ExecManagerCreateStatusCodes ==
  (200 :> "true" @@ 201 :> "true" @@ 404 :> "no such container"
    @@ 409 :> "container is paused" @@ 500 :> "server error")
FsInfoStatusCodes ==
  (200 :> "true" @@ 404 :> "bad request" @@ 500 :> "server error")
FsGetStatusCodes ==
  (200 :> "true" @@ 400 :> "bad request" @@ 404 :> "no such container"
    @@ 500 :> "server error")
FsPutStatusCodes ==
  (200 :> "true" @@ 400 :> "bad request" @@ 403 :> "permission denied"
    @@ 404 :> "no such container" @@ 500 :> "server error")
StatusStatusCodes ==
  (200 :> "true" @@ 404 :> "no such container" @@ 500 :> "server error")
TopStatusCodes ==
  (200 :> "true" @@ 404 :> "no such container" @@ 500 :> "server error")
LogsStatusCodes ==
  (101 :> "true" @@ 200 :> "true" @@ 404 :> "no such container" @@ 500 :> "server error")
ChangesStatusCodes ==
  (200 :> "true" @@ 404 :> "no such container" @@ 500 :> "server error")
ExportStatusCodes ==
  (200 :> "true" @@ 404 :> "no such container" @@ 500 :> "server error")
StatsStatusCodes ==
  (200 :> "true" @@ 404 :> "no such container" @@ 500 :> "server error")
ResizeStatusCodes ==
  (200 :> "true" @@ 404 :> "no such container" @@ 500 :> "server error")
StartStatusCodes ==
  (204 :> "true" @@ 304 :> "true" @@ 404 :> "no such container" @@ 500 :> "server error")
StopStatusCodes ==
  (204 :> "true" @@ 304 :> "true" @@ 404 :> "no such container" @@ 500 :> "server error")
RestartStatusCodes ==
  (204 :> "true" @@ 404 :> "no such container" @@ 500 :> "server error")
KillStatusCodes ==
  (204 :> "true" @@ 404 :> "no such container" @@ 500 :> "server error")
UpdateStatusCodes ==
  (200 :> "true" @@ 400 :> "bad request" @@ 404 :> "no such container"
    @@ 500 :> "server error")
RenameStatusCodesSlip ==
  (204 :> "true" @@ 404 :> "bad request" @@ 409 :> "name already taken"
    @@ 500 :> "server error")
RenameStatusCodes ==
  (204 :> "true" @@ 404 :> "no such container" @@ 409 :> "name already taken"
    @@ 500 :> "server error")
PauseStatusCodes ==
  (204 :> "true" @@ 404 :> "no such container" @@ 500 :> "server error")
UnpauseStatusCodes ==
  (204 :> "true" @@ 404 :> "no such container" @@ 500 :> "server error")
AttachStatusCodes ==
  (101 :> "true" @@ 200 :> "true" @@ 400 :> "bad request" @@ 404 :> "no such container"
    @@ 500 :> "server error")
WsattachStatusCodes ==
  (200 :> "true" @@ 400 :> "bad request" @@ 404 :> "no such container"
    @@ 500 :> "server error")
WaitStatusCodes ==
  (200 :> "true" @@ 404 :> "no such container" @@ 500 :> "server error")
DeleteStatusCodes ==
  (204 :> "true" @@ 400 :> "bad request" @@ 404 :> "no such container"
    @@ 500 :> "server error")
CommitStatusCodes ==
  (201 :> "true" @@ 404 :> "no such container" @@ 500 :> "server error")
ListStatusCodes ==
  (200 :> "true" @@ 400 :> "bad request" @@ 500 :> "server error")
CreateStatusCodes ==
  (200 :> "true" @@ 201 :> "true" @@ 400 :> "bad request" @@ 404 :> "no such image"
    @@ 406 :> "impossible to attach" @@ 500 :> "server error")
PruneStatusCodes ==
  (200 :> "true" @@ 500 :> "server error")

StatusCodes(op) ==
  CASE op = "Exec.create" -> ExecCreateStatusCodes
    [] op = "Exec.start" -> ExecStartStatusCodes
    [] op = "Exec.resize" -> ExecResizeStatusCodes
    [] op = "Exec.status" -> ExecStatusStatusCodes
    [] op = "ExecManager.create" -> ExecManagerCreateStatusCodes
    [] op = "ContainerFs.info" -> FsInfoStatusCodes
    [] op = "ContainerFs.get" -> FsGetStatusCodes
    [] op = "ContainerFs.put" -> FsPutStatusCodes
    [] op = "Container.status" -> StatusStatusCodes
    [] op = "Container.top" -> TopStatusCodes
    [] op = "Container.logs" -> LogsStatusCodes
    [] op = "Container.changes" -> ChangesStatusCodes
    [] op = "Container.export" -> ExportStatusCodes
    [] op = "Container.stats" -> StatsStatusCodes
    [] op = "Container.resize" -> ResizeStatusCodes
    [] op = "Container.start" -> StartStatusCodes
    [] op = "Container.stop" -> StopStatusCodes
    [] op = "Container.restart" -> RestartStatusCodes
    [] op = "Container.kill" -> KillStatusCodes
    [] op = "Container.update" -> UpdateStatusCodes
    [] op = "Container.rename" -> RenameStatusCodes
    [] op = "Container.pause" -> PauseStatusCodes
    [] op = "Container.unpause" -> UnpauseStatusCodes
    [] op = "Container.attach" -> AttachStatusCodes
    [] op = "Container.wsattach" -> WsattachStatusCodes
    [] op = "Container.wait" -> WaitStatusCodes
    [] op = "Container.delete" -> DeleteStatusCodes
    [] op = "Container.commit" -> CommitStatusCodes
    [] op = "default.list" -> ListStatusCodes
    [] op = "default.create" -> CreateStatusCodes
    [] op = "default.prune" -> PruneStatusCodes

Method(op) ==
  CASE op \in {"ContainerFs.info"} -> "HEAD"
    [] op \in {"ContainerFs.put"} -> "PUT"
    [] op \in {"Container.delete"} -> "DELETE"
    [] op \in {"Exec.status", "ContainerFs.get", "Container.status", "Container.top",
               "Container.logs", "Container.changes", "Container.export", "Container.stats",
               "Container.resize", "Container.wsattach", "default.list"} -> "GET"
    [] OTHER -> "POST"

\* the last path segments of a container method, after /containers/<id>
Verb(op) ==
  CASE op = "Container.status" -> <<"json?">>
    [] op = "Container.top" -> <<"top?">>
    [] op = "Container.logs" -> <<"logs?">>
    [] op = "Container.changes" -> <<"changes?">>
    [] op = "Container.export" -> <<"export?">>
    [] op = "Container.stats" -> <<"stats?">>
    [] op = "Container.resize" -> <<"resize?">>
    [] op = "Container.start" -> <<"start?">>
    [] op = "Container.stop" -> <<"stop?">>
    [] op = "Container.restart" -> <<"restart?">>
    [] op = "Container.kill" -> <<"kill?">>
    [] op = "Container.update" -> <<"update?">>
    [] op = "Container.rename" -> <<"rename?">>
    [] op = "Container.pause" -> <<"pause?">>
    [] op = "Container.unpause" -> <<"unpause?">>
    [] op = "Container.attach" -> <<"attach?">>
    [] op = "Container.wsattach" -> <<"attach", "ws?">>
    [] op = "Container.wait" -> <<"wait?">>
    [] op = "Container.delete" -> <<"?">>
    [] op \in {"ExecManager.create", "Exec.create"} -> <<"exec?">>
    [] op \in {"ContainerFs.info", "ContainerFs.put"} -> <<"archive?">>
    [] op = "Exec.start" -> <<"start?">>
    [] op = "Exec.resize" -> <<"resize?">>
    [] op = "Exec.status" -> <<"json?">>

\* the path template of each method, as its sequence of segments; `id` is
\* this.id and `cid` is this.container.id
Path(op, id, cid, opts) ==
  CASE op = "default.list" -> <<"containers", "json?">>
    [] op = "default.create" -> <<"containers", "create?">>
    [] op = "default.prune" -> <<"containers", "prune">>
    [] op = "Container.commit" -> <<"commit?">>
    [] op = "ContainerFs.get" -> <<"containers", cid, "archive?path=", opts.path, "&">>
    [] op \in {"ContainerFs.info", "ContainerFs.put", "ExecManager.create", "Exec.create"} ->
         <<"containers", cid>> \o Verb(op)
    [] op \in {"Exec.start", "Exec.resize", "Exec.status"} -> <<"exec", id>> \o Verb(op)
    [] OTHER -> <<"containers", id>> \o Verb(op)

IsStream(op, opts) ==
  CASE op \in {"Exec.start", "ContainerFs.info", "ContainerFs.get", "ContainerFs.put",
               "Container.logs", "Container.stats", "Container.attach"} -> TRUE
    [] op = "Container.export" -> Truthy(opts.stream)
    [] OTHER -> FALSE

\* `options: {}` written in every method
CallOptionsAlwaysEmpty(op, opts) == EmptyOpts

\* the `options` member: the method's opts, or a new {} where the method
\* writes `options: {}`
CallOptions(op, opts) ==
  IF op \in NoArgOps THEN EmptyOpts ELSE opts

\* the `call` object a method builds (the members hijack, openStdin and file,
\* which only the transport reads, are left out)
Call(op, id, cid, arg) ==
  LET opts == OptsAfterEntry(op, id, arg)
  IN  [path |-> Path(op, id, cid, opts),
       method |-> Method(op),
       options |-> CallOptions(op, opts),
       isStream |-> IsStream(op, opts),
       statusCodes |-> StatusCodes(op)]

\* ------------------------------------------------------------ the transport
\* dial's `err` argument: null, or an error carrying the reason of the table
NoErr == [none |-> TRUE]
TransportError == [reason |-> "undefined", statusCode |-> 0, transport |-> TRUE]
StatusError(call, status) ==
  [reason |-> IF status \in DOMAIN call.statusCodes THEN call.statusCodes[status]
              ELSE "undefined",
   statusCode |-> status,
   transport |-> FALSE]

\* dial's second argument when there is none
UndefinedValue == [undefined |-> TRUE]

\* Buffer.toString() of a chunk: its bytes decoded to characters
CharOf(b) == CASE b = 104 -> "h" [] b = 105 -> "i" [] b = 10 -> "\n" [] OTHER -> "?"

RECURSIVE ChunkToString(_)
ChunkToString(chunk) ==
  IF chunk = << >> THEN "" ELSE CharOf(Head(chunk)) \o ChunkToString(Tail(chunk))

\* Array.prototype.join('')
RECURSIVE Join(_)
Join(strs) == IF strs = << >> THEN "" ELSE Head(strs) \o Join(Tail(strs))

RECURSIVE ChunksToStrings(_)
ChunksToStrings(chunks) ==
  IF chunks = << >> THEN << >> ELSE <<ChunkToString(Head(chunks))>> \o ChunksToStrings(Tail(chunks))

\* what the daemon can send back on each endpoint
Payloads(op) ==
  CASE op = "default.list" -> {[list |-> l] : l \in Lists}
    [] op \in {"Exec.start", "ContainerFs.info", "ContainerFs.get", "ContainerFs.put",
               "Container.logs", "Container.stats", "Container.attach",
               "Container.export"} -> {[chunks |-> c] : c \in Streams}
    [] op \in {"Exec.resize", "Container.start", "Container.stop", "Container.restart",
               "Container.kill", "Container.rename", "Container.pause",
               "Container.unpause", "Container.delete"} -> {[nobody |-> TRUE]}
    [] op = "Container.commit" ->
         {[json |-> [Id |-> "sha256:a", State |-> "image"]],
          [json |-> [Id |-> "b", State |-> "image"]]}
    [] op = "Container.update" -> {[json |-> [Warnings |-> <<"w">>]]}
    [] OTHER -> {[json |-> b] : b \in Bodies}

\* modem.dial(call, callback): the transport contract.  A status of 0 stands
\* for a connection that failed before any response.  An accepted status
\* delivers the live stream when isStream is set and the buffered, decoded
\* content otherwise; every other status delivers an error.
Dial(call, status, payload) ==
  IF status = 0 THEN [err |-> TransportError, data |-> UndefinedValue]
  ELSE IF status \in DOMAIN call.statusCodes /\ call.statusCodes[status] = "true"
  THEN [err |-> NoErr,
        data |-> IF "chunks" \in DOMAIN payload
                 THEN IF call.isStream THEN [stream |-> payload.chunks]
                      ELSE [str |-> Join(ChunksToStrings(payload.chunks))]
                 ELSE IF "json" \in DOMAIN payload THEN payload.json
                 ELSE IF "list" \in DOMAIN payload THEN payload.list
                 ELSE UndefinedValue]
  ELSE [err |-> StatusError(call, status), data |-> UndefinedValue]

\* ---------------------------------------------------------------- handles
\* new Container(modem, id)
NewContainer(id) ==
  [kind |-> "Container", id |-> id, data |-> UndefinedData, Warnings |-> NoWarnings,
   container |-> 0]

\* new Exec(modem, container, id); `container` is the owning handle's place
\* in the heap
NewExec(container, id) ==
  [kind |-> "Exec", id |-> id, data |-> EmptyObject, Warnings |-> NoWarnings,
   container |-> container]

\* default.get(id) written `new Container(id)`: the identifier takes the
\* place of the modem and the handle has no identifier
GetHandleNoModem(id) == NewContainer("undefined")

\* default.get(id)
GetHandle(id) == NewContainer(id)

\* ExecManager.get(id); `container` is the manager's container
ExecGetHandle(container, id) == NewExec(container, id)

\* new Image(modem, id)
NewImage(id) == [image |-> id]

\* String.prototype.replace('sha256:', '')
StripSha256(id) == IF id = "sha256:a" THEN "a" ELSE IF id = "sha256:b" THEN "b" ELSE id

\* ------------------------------------------------------------- callbacks
\* A callback's effect: the heap it leaves, the resolve/reject calls it makes
\* in order, the dial calls it makes, and whether it left listeners on the
\* stream.
Resolve(v) == [kind |-> "resolve", value |-> v]
Reject(e) == [kind |-> "reject", value |-> [error |-> e]]
Effect(h, settles) == [heap |-> h, settles |-> settles, dials |-> 0, listening |-> FALSE]

\* Exec.create filling in the receiver (this.id = conf.Id) instead of
\* building a new Exec
ExecCreateCallbackReuse(h, self, err, conf) ==
  IF err # NoErr THEN Effect(h, <<Reject(err)>>)
  ELSE Effect([h EXCEPT ![self].id = conf.Id, ![self].data = conf],
              <<Resolve([this |-> self])>>)

\* Exec.create
ExecCreateCallback(h, self, err, conf) ==
  IF err # NoErr THEN Effect(h, <<Reject(err)>>)
  ELSE Effect(h, <<Resolve([handle |->
         [NewExec(h[self].container, conf.Id) EXCEPT !.data = conf]])>>)

\* Exec.status with the snapshot written into the receiver
ExecStatusCallbackInPlace(h, self, err, conf) ==
  IF err # NoErr THEN Effect(h, <<Reject(err)>>)
  ELSE Effect([h EXCEPT ![self].data = conf], <<Resolve([this |-> self])>>)

\* Exec.status
ExecStatusCallback(h, self, err, conf) ==
  IF err # NoErr THEN Effect(h, <<Reject(err)>>)
  ELSE Effect(h, <<Resolve([handle |->
         [NewExec(h[self].container, conf.Id) EXCEPT !.data = conf]])>>)

\* ExecManager.create; self is the manager's container
ExecManagerCreateCallback(h, self, err, conf) ==
  IF err # NoErr THEN Effect(h, <<Reject(err)>>)
  ELSE Effect(h, <<Resolve([handle |-> [NewExec(self, conf.Id) EXCEPT !.data = conf]])>>)

\* Container.status with the snapshot written into the receiver
StatusCallbackInPlace(h, self, err, conf) ==
  IF err # NoErr THEN Effect(h, <<Reject(err)>>)
  ELSE Effect([h EXCEPT ![self].data = conf], <<Resolve([this |-> self])>>)

\* Container.status
StatusCallback(h, self, err, conf) ==
  IF err # NoErr THEN Effect(h, <<Reject(err)>>)
  ELSE Effect(h, <<Resolve([handle |-> [NewContainer(h[self].id) EXCEPT !.data = conf]])>>)

\* top, logs, changes, stats, resize, wait, prune, Exec.start and the three
\* ContainerFs methods: resolve(<dial's value>)
PassCallback(h, self, err, data) ==
  IF err # NoErr THEN Effect(h, <<Reject(err)>>)
  ELSE Effect(h, <<Resolve([data |-> data])>>)

\* Exec.resize and Container.delete: resolve(null)
NullCallback(h, self, err, data) ==
  IF err # NoErr THEN Effect(h, <<Reject(err)>>)
  ELSE Effect(h, <<Resolve([null |-> TRUE])>>)

\* resolve(this) without the test of err
ThisCallbackNoErrTest(h, self, err, data) == Effect(h, <<Resolve([this |-> self])>>)

\* start, stop, restart, kill, rename, pause, unpause: resolve(this)
ThisCallback(h, self, err, data) ==
  IF err # NoErr THEN Effect(h, <<Reject(err)>>)
  ELSE Effect(h, <<Resolve([this |-> self])>>)

\* Container.update attaching the warnings to the receiver (this.Warnings =
\* warnings; resolve(this))
UpdateCallbackInPlace(h, self, err, warnings) ==
  IF err # NoErr THEN Effect(h, <<Reject(err)>>)
  ELSE Effect([h EXCEPT ![self].Warnings = warnings], <<Resolve([this |-> self])>>)

\* Container.update resolving the container it built before err is tested
UpdateCallbackResolveFirst(h, self, err, warnings) ==
  LET container == [NewContainer(h[self].id) EXCEPT !.Warnings = warnings]
  IN  IF err # NoErr THEN Effect(h, <<Resolve([handle |-> container]), Reject(err)>>)
      ELSE Effect(h, <<Resolve([handle |-> container])>>)

\* Container.update: the container is built before err is tested
UpdateCallback(h, self, err, warnings) ==
  LET container == [NewContainer(h[self].id) EXCEPT !.Warnings = warnings]
  IN  IF err # NoErr THEN Effect(h, <<Reject(err)>>)
      ELSE Effect(h, <<Resolve([handle |-> container])>>)

\* attach, wsattach: resolve([stream, this])
AttachCallback(h, self, err, stream) ==
  IF err # NoErr THEN Effect(h, <<Reject(err)>>)
  ELSE Effect(h, <<Resolve([pair |-> stream, this |-> self])>>)

\* Container.commit
CommitCallback(h, self, err, res) ==
  IF err # NoErr THEN Effect(h, <<Reject(err)>>)
  ELSE Effect(h, <<Resolve(NewImage(StripSha256(res.Id)))>>)

\* a map that puts each new handle in front of the earlier ones
RECURSIVE MapContainersReversed(_)
MapContainersReversed(containers) ==
  IF containers = << >> THEN << >>
  ELSE MapContainersReversed(Tail(containers))
         \o <<[NewContainer(Head(containers).Id) EXCEPT !.data = Head(containers)]>>

\* containers.map((conf) => ...)
RECURSIVE MapContainers(_)
MapContainers(containers) ==
  IF containers = << >> THEN << >>
  ELSE <<[NewContainer(Head(containers).Id) EXCEPT !.data = Head(containers)]>>
         \o MapContainers(Tail(containers))

\* default.list
ListCallback(h, self, err, containers) ==
  IF err # NoErr THEN Effect(h, <<Reject(err)>>)
  ELSE Effect(h, <<Resolve([handles |-> MapContainers(containers)])>>)

\* default.create reading conf.id, which the body does not hold
CreateCallbackLowercaseId(h, self, err, conf) ==
  IF err # NoErr THEN Effect(h, <<Reject(err)>>)
  ELSE Effect(h, <<Resolve([handle |-> [NewContainer("undefined") EXCEPT !.data = conf]])>>)

\* default.create
CreateCallback(h, self, err, conf) ==
  IF err # NoErr THEN Effect(h, <<Reject(err)>>)
  ELSE Effect(h, <<Resolve([handle |-> [NewContainer(conf.Id) EXCEPT !.data = conf]])>>)

\* Container.export: without opts.stream the value of dial is resolved as it
\* is; with it, listeners collect the chunks and 'end' resolves
ExportCallback(h, opts, err, tarStream) ==
  IF err # NoErr THEN Effect(h, <<Reject(err)>>)
  ELSE IF ~Truthy(opts.stream) THEN Effect(h, <<Resolve([data |-> tarStream])>>)
  ELSE [heap |-> h, settles |-> << >>, dials |-> 0, listening |-> TRUE]

\* tarStream.on('data', ...): res.push(chunk.toString())
ExportOnData(res, chunk) == Append(res, ChunkToString(chunk))

\* tarStream.on('end', ...): resolve(res.join(''))
ExportOnEnd(res) == <<Resolve([text |-> Join(res)])>>

\* the callback each method passes to dial
Callback(op, h, self, opts, err, data) ==
  CASE op = "Exec.create" -> ExecCreateCallback(h, self, err, data)
    [] op = "Exec.status" -> ExecStatusCallback(h, self, err, data)
    [] op = "ExecManager.create" -> ExecManagerCreateCallback(h, self, err, data)
    [] op = "Container.status" -> StatusCallback(h, self, err, data)
    [] op \in {"Exec.resize", "Container.delete"} -> NullCallback(h, self, err, data)
    [] op \in {"Container.start", "Container.stop", "Container.restart", "Container.kill",
               "Container.rename", "Container.pause", "Container.unpause"} ->
         ThisCallback(h, self, err, data)
    [] op = "Container.update" -> UpdateCallback(h, self, err, data)
    [] op \in {"Container.attach", "Container.wsattach"} -> AttachCallback(h, self, err, data)
    [] op = "Container.commit" -> CommitCallback(h, self, err, data)
    [] op = "default.list" -> ListCallback(h, self, err, data)
    [] op = "default.create" -> CreateCallback(h, self, err, data)
    [] op = "Container.export" -> ExportCallback(h, opts, err, data)
    [] OTHER -> PassCallback(h, self, err, data)

\* ------------------------------------------------------------------ state
VARIABLES
  heap,    \* the handles the caller holds, in the order it obtained them
  calls,   \* the calls in flight, in the order they were issued
  done,    \* the call whose promise has just settled, or the get that has just
           \* returned, until the caller takes it
  gone     \* identifiers of containers removed from the daemon

vars == <<heap, calls, done, gone>>

None == [op |-> "none"]

\* the calls made while another call is in flight: status() again on the
\* handle whose status() is in flight
ConcurrentOps == {"Container.status", "Exec.status"}

\* the calls made on one handle while a call on another handle is in flight
InterleavedOps == {"Container.update", "Exec.create"}

\* methods that read a key of their options
ReadingOps == {"Container.export", "ContainerFs.get", "Container.commit"}

\* extra status codes the daemon may answer besides those of the table
\* (0: the connection failed and there is no answer)
ExtraStatuses == {0, 304, 409}

\* the error statuses of the archive endpoint
ArchiveStatuses == {400, 403, 404, 500}

Statuses(op) ==
  DOMAIN StatusCodes(op) \cup ExtraStatuses
    \cup (IF op \in FsOps THEN ArchiveStatuses ELSE {})

Accepted(op, status) ==
  status \in DOMAIN StatusCodes(op) /\ StatusCodes(op)[status] = "true"

InFlight == 1..Len(calls)

\* the receiver of a method: 0 for the manager, else a place in the heap
Receivers(op) ==
  IF op \in ManagerOps THEN {0}
  ELSE {r \in 1..Len(heap) : heap[r].kind = (IF op \in ExecOps THEN "Exec" ELSE "Container")}

\* this.id and this.container.id as the method reads them
ThisId(h, op, r) == IF op \in ManagerOps THEN "" ELSE h[r].id
ThisContainerId(h, op, r) ==
  IF op \in ExecOps THEN h[h[r].container].id
  ELSE IF op \in ManagerOps THEN "" ELSE h[r].id

\* the container a request is about, for the daemon
Target(c) ==
  IF c.op \in ManagerOps THEN ""
  ELSE IF c.op \in ExecOps THEN heap[heap[c.recv].container].id
  ELSE heap[c.recv].id

\* the arguments tried for each method: every choice where the method reads
\* its options, no argument or a record where it has a default, a record
\* where it only passes them on
Args(op) ==
  IF op \in NoArgOps THEN {NoOpts}
  ELSE IF op \in ReadingOps THEN OptsChoices
  ELSE IF op \in DefaultedOps THEN {NoOpts, PlainOpts}
  ELSE {PlainOpts}

Init ==
  /\ heap = << >>
  /\ calls = << >>
  /\ done = None
  /\ gone = {}

\* the two get methods, which return a handle at once
GetOps == {"default.get", "ExecManager.get"}

\* the record of a get that has returned: `inFlight` is the calls in flight
\* when it was called
Returned(op, r, id, handle) ==
  [op |-> op, recv |-> r, id |-> id, state |-> "returned", value |-> [handle |-> handle],
   inFlight |-> calls, stale |-> (IF r = 0 THEN id ELSE heap[r].id) \in gone]

\* default.get(id)
Get(id) ==
  /\ done = None
  /\ Len(heap) < MaxHandles
  /\ done' = Returned("default.get", 0, id, GetHandle(id))
  /\ UNCHANGED <<heap, calls, gone>>

\* ExecManager.get(id) on the exec member of container c
ExecGet(c, id) ==
  /\ done = None
  /\ Len(heap) < MaxHandles
  /\ heap[c].kind = "Container"
  /\ done' = Returned("ExecManager.get", c, id, ExecGetHandle(c, id))
  /\ UNCHANGED <<heap, calls, gone>>

\* a method is called: the call object is built and dial is invoked once,
\* inside the promise's executor
Issue(op, r, arg) ==
  /\ done = None
  /\ Len(calls) < MaxInFlight
  /\ \/ calls = << >>
     \/ op \in ConcurrentOps /\ \A i \in InFlight : calls[i].op = op /\ calls[i].recv = r
     \/ op \in InterleavedOps
          /\ \A i \in InFlight : calls[i].op \in InterleavedOps /\ calls[i].recv # r
  /\ LET id == ThisId(heap, op, r)
         same(i) == calls[i].op = op /\ calls[i].recv = r
         new == [phase |-> "dialing", op |-> op, recv |-> r, arg |-> arg,
                 opts |-> OptsAfterEntry(op, id, arg),
                 callerOpts |-> IF arg.given THEN OptsAfterEntry(op, id, arg) ELSE arg,
                 call |-> Call(op, id, ThisContainerId(heap, op, r), arg),
                 dials |-> 1, res |-> << >>, stream |-> << >>, content |-> << >>,
                 atIssue |-> IF r = 0 THEN None ELSE heap[r],
                 raced |-> \E i \in InFlight : same(i), overtaken |-> FALSE]
     IN  calls' = Append([i \in InFlight |->
                            IF same(i) THEN [calls[i] EXCEPT !.raced = TRUE] ELSE calls[i]],
                         new)
  /\ UNCHANGED <<heap, done, gone>>

\* the record of a settled call: the promise takes the first resolve/reject
Completion(c, status, d, e, before) ==
  [op |-> c.op, recv |-> c.recv, arg |-> c.arg, opts |-> c.opts,
   callerOpts |-> c.callerOpts, call |-> c.call, dials |-> c.dials + e.dials,
   status |-> status, err |-> d.err, data |-> d.data, settles |-> e.settles,
   state |-> IF Head(e.settles).kind = "resolve" THEN "fulfilled" ELSE "rejected",
   value |-> Head(e.settles).value,
   raced |-> c.raced, overtaken |-> c.overtaken, atIssue |-> c.atIssue,
   before |-> before, target |-> Target(c), stale |-> Target(c) \in gone]

\* the calls left in flight when the i-th settles: those issued before it
\* have been overtaken
Overtake(seq, i) ==
  [j \in 1..(i - 1) |-> [seq[j] EXCEPT !.overtaken = TRUE]] \o SubSeq(seq, i + 1, Len(seq))

\* the daemon answers (or the connection fails) and dial invokes the callback
Respond(i, status, payload) ==
  /\ done = None
  /\ calls[i].phase = "dialing"
  /\ Target(calls[i]) \in gone => status \in {0, 404}
  /\ LET c == calls[i]
         d == Dial(c.call, status, payload)
         e == Callback(c.op, heap, c.recv, c.opts, d.err, d.data)
     IN  /\ heap' = e.heap
         /\ IF e.listening
            THEN /\ calls' = [calls EXCEPT ![i].phase = "streaming",
                                           ![i].stream = d.data.stream,
                                           ![i].content = d.data.stream]
                 /\ done' = None
            ELSE /\ calls' = Overtake(calls, i)
                 /\ done' = Completion(c, status, d, e, heap)
         /\ gone' = IF c.op = "Container.delete" /\ d.err = NoErr
                    THEN gone \cup {Target(c)}
                    ELSE IF c.op = "default.create" /\ d.err = NoErr
                    THEN gone \ {d.data.Id}
                    ELSE gone

\* the stream of an export emits 'data'
StreamData(i) ==
  /\ done = None
  /\ calls[i].phase = "streaming"
  /\ calls[i].stream # << >>
  /\ calls' = [calls EXCEPT ![i].res = ExportOnData(calls[i].res, Head(calls[i].stream)),
                            ![i].stream = Tail(calls[i].stream)]
  /\ UNCHANGED <<heap, done, gone>>

\* the stream of an export emits 'end'
StreamEnd(i) ==
  /\ done = None
  /\ calls[i].phase = "streaming"
  /\ calls[i].stream = << >>
  /\ done' = Completion(calls[i], 200,
                        [err |-> NoErr, data |-> [stream |-> calls[i].content]],
                        Effect(heap, ExportOnEnd(calls[i].res)), heap)
  /\ calls' = Overtake(calls, i)
  /\ UNCHANGED <<heap, gone>>

\* the stream of an export fails before its end: no listener is registered
\* for 'error', and 'end' never comes
StreamError(i) ==
  /\ done = None
  /\ calls[i].phase = "streaming"
  /\ calls' = [calls EXCEPT ![i].phase = "errored"]
  /\ UNCHANGED <<heap, done, gone>>

\* the handles a settled call resolved with
FreshHandles(d) ==
  IF d.state = "returned" THEN <<d.value.handle>>
  ELSE IF d.state # "fulfilled" THEN << >>
  ELSE IF "handle" \in DOMAIN d.value THEN <<d.value.handle>>
  ELSE IF "handles" \in DOMAIN d.value THEN d.value.handles
  ELSE << >>

\* the caller takes the outcome; k > 0 keeps the k-th handle it resolved with
Return(k) ==
  /\ done # None
  /\ done' = None
  /\ IF k = 0 THEN heap' = heap
     ELSE /\ k <= Len(FreshHandles(done))
          /\ Len(heap) < MaxHandles
          /\ heap' = Append(heap, FreshHandles(done)[k])
  /\ UNCHANGED <<calls, gone>>

Next ==
  \/ \E id \in Ids : Get(id)
  \/ \E c \in 1..Len(heap), id \in Ids : ExecGet(c, id)
  \/ \E op \in Ops : \E r \in Receivers(op), arg \in Args(op) : Issue(op, r, arg)
  \/ \E i \in {j \in InFlight : calls[j].phase = "dialing"} :
     \E status \in Statuses(calls[i].op) :
       \E payload \in IF Accepted(calls[i].op, status) THEN Payloads(calls[i].op)
                      ELSE {[nobody |-> TRUE]} :
         Respond(i, status, payload)
  \/ \E i \in InFlight : StreamData(i)
  \/ \E i \in InFlight : StreamEnd(i)
  \/ \E i \in InFlight : StreamError(i)
  \/ \E k \in 0..MaxList : Return(k)

Spec == Init /\ [][Next]_vars

\* ------------------------------------------------------------------ claims
Settled(ops) == done.op \in ops
Fulfilled(ops) == done.op \in ops /\ done.state = "fulfilled"
StatusOps == {"Container.status", "Exec.status"}
CreateOps == {"default.create", "ExecManager.create", "Exec.create"}

\* C1 (as claimed): export resolves with the live stream itself when the
\* caller asks for a stream (and the descriptor then has isStream true), and
\* with the content buffered and decoded to a string when it does not.
C1_ExportDualMode ==
  Fulfilled({"Container.export"}) =>
    IF Truthy(done.arg.stream)
    THEN /\ done.call.isStream
         /\ "data" \in DOMAIN done.value
         /\ "stream" \in DOMAIN done.value.data
    ELSE /\ ~done.call.isStream
         /\ "data" \in DOMAIN done.value
         /\ "str" \in DOMAIN done.value.data

\* C2 (as claimed): after a successful status() on handle h, h's own data
\* field equals the decoded response body of that call.
C2_ReceiverSnapshotReplaced ==
  Fulfilled(StatusOps) => heap[done.recv].data = done.data

\* C2 (amended): a successful status() resolves with a new handle whose data
\* field is the whole decoded response body of that call; the receiver, and
\* every other handle, is left as it was.
C2_StatusResolvesNewSnapshot ==
  Fulfilled(StatusOps) =>
    /\ "handle" \in DOMAIN done.value
    /\ done.value.handle.data = done.data
    /\ heap = done.before

\* C2 witness: status() succeeds on a handle that holds an older, different
\* snapshot.
C2_Witness ==
  /\ Fulfilled(StatusOps)
  /\ done.before[done.recv].data \in Bodies
  /\ done.before[done.recv].data # done.data

\* C3: list() resolves with one handle per element of the daemon's array, in
\* the daemon's order: the i-th handle has the i-th element's Id and the i-th
\* element as its snapshot.
C3_ListKeepsOrder ==
  Fulfilled({"default.list"}) =>
    /\ "handles" \in DOMAIN done.value
    /\ Len(done.value.handles) = Len(done.data)
    /\ \A i \in 1..Len(done.data) :
         /\ done.value.handles[i].id = done.data[i].Id
         /\ done.value.handles[i].data = done.data[i]
         /\ done.value.handles[i].kind = "Container"

\* C3 witness: the daemon's array is not sorted by Id.
C3_Witness ==
  /\ Fulfilled({"default.list"})
  /\ Len(done.data) >= 2
  /\ done.data[1].Id = "b"
  /\ done.data[2].Id = "a"

\* the handle get(id) gives for the identifier of a created handle
GetAfterCreate(d) ==
  IF d.op = "default.create" THEN GetHandle(d.value.handle.id)
  ELSE ExecGetHandle(IF d.op = "ExecManager.create" THEN d.recv
                     ELSE d.before[d.recv].container,
                     d.value.handle.id)

\* C4: a successful create resolves with a new handle whose identifier is the
\* Id of the decoded body and whose snapshot is the whole body (an exec handle
\* is bound to the owning container); every method called on get(id) of that
\* identifier builds the same call as on the created handle.
C4_CreateThenGet ==
  Fulfilled(CreateOps) =>
    /\ "handle" \in DOMAIN done.value
    /\ done.value.handle.id = done.data.Id
    /\ done.value.handle.data = done.data
    /\ done.value.handle.kind = GetAfterCreate(done).kind
    /\ done.value.handle.container = GetAfterCreate(done).container
    /\ LET created == Append(heap, done.value.handle)
           got == Append(heap, GetAfterCreate(done))
           n == Len(heap) + 1
       IN  \A op \in IF done.op = "default.create" THEN ContainerOps ELSE ExecOps :
             \A arg \in OptsChoices :
               Call(op, ThisId(created, op, n), ThisContainerId(created, op, n), arg)
                 = Call(op, ThisId(got, op, n), ThisContainerId(got, op, n), arg)

\* C4 witness: an exec is created in a container whose identifier differs
\* from the new exec's.
C4_Witness ==
  /\ Fulfilled({"ExecManager.create"})
  /\ done.value.handle.id # heap[done.recv].id

\* C5: a state-transition method answered with status 404 rejects with the
\* reason 'no such container'.
C5_TransitionNotFound ==
  (Settled(TransitionOps) /\ done.status = 404) =>
    /\ done.state = "rejected"
    /\ done.value = [error |-> done.err]
    /\ done.err.reason = "no such container"

\* C5 witness: rename is answered with 404.
C5_Witness == Settled({"Container.rename"}) /\ done.status = 404

\* C6 (as claimed): a successful delete resolves with no payload and leaves
\* the handles as they were; once the container is gone, every method the
\* daemon answers on that handle, its filesystem and its execs rejects with a
\* reason that says the entity does not exist.
C6_StaleHandleNotFound ==
  /\ Fulfilled({"Container.delete"}) => done.value = [null |-> TRUE] /\ heap = done.before
  /\ (done.op \in Ops \ ManagerOps /\ done.stale /\ done.status # 0) =>
       /\ done.state = "rejected"
       /\ done.err.reason \in {"no such container", "no such exec instance"}

\* C7: an answer whose status code is not a key of the method's table never
\* resolves the promise.
C7_UnmappedStatusRejects ==
  (Settled(Ops) /\ done.status # 0 /\ done.status \notin DOMAIN StatusCodes(done.op)) =>
    done.state = "rejected"

\* C7 witness: restart is answered with 304, which start and stop accept.
C7_Witness == Settled({"Container.restart"}) /\ done.status = 304

\* C8: every call dials once; when dial reports an error the promise is
\* rejected with that error, by the only resolve/reject the callback makes,
\* and no handle or payload is resolved.
C8_DialOnceErrorSurfaced ==
  /\ \A i \in InFlight : calls[i].dials = 1
  /\ Settled(Ops) =>
       /\ done.dials = 1
       /\ done.err # NoErr =>
            /\ done.state = "rejected"
            /\ done.settles = <<Reject(done.err)>>
            /\ FreshHandles(done) = << >>

\* C8 witness: the connection fails during update.
C8_Witness == Settled({"Container.update"}) /\ done.err = TransportError

\* C9 (as claimed): once dial has invoked the callback and the stream it
\* delivered, if any, is finished, the promise is settled, by exactly one
\* resolve or reject.
C9_SettlesExactlyOnce ==
  /\ \A i \in InFlight : calls[i].phase # "errored"
  /\ Settled(Ops) => Len(done.settles) = 1

\* C10 (as claimed): when status() calls were in flight together on a handle
\* and all have resolved, the handle's snapshot is the response of the call
\* that resolved last.
C10_LastWriteWins ==
  (Fulfilled(StatusOps) /\ done.raced /\ calls = << >>) =>
    heap[done.recv].data = done.data

\* C10 (amended): each of the status() calls in flight together resolves with
\* its own new handle holding that call's response, and the receiver is never
\* written: after they have resolved, in either order, it is as it was when
\* the calls were made.
C10_RacingStatusLeavesReceiver ==
  (Fulfilled(StatusOps) /\ done.raced) =>
    /\ "handle" \in DOMAIN done.value
    /\ done.value.handle.data = done.data
    /\ heap[done.recv] = done.atIssue

\* C10 witness: the call that resolves last was overtaken by a later one, on
\* a handle that holds an older, different snapshot.
C10_Witness ==
  /\ Fulfilled({"Container.status"})
  /\ done.raced
  /\ done.overtaken
  /\ calls = << >>
  /\ done.atIssue.data \in Bodies
  /\ done.atIssue.data # done.data

\* the handles of the heap are those of the step before, field by field
HeapKept == \A i \in 1..Len(heap) : i <= Len(heap') /\ heap'[i] = heap[i]

\* C11: no step changes a field of a handle the caller holds: every handle
\* keeps the identifier it was constructed with (and, for an exec, its owning
\* container), and a call on one handle writes no field of another handle,
\* whatever the order in which calls on different handles are made and
\* answered.
C11_HandlesNeverWritten == [][HeapKept]_vars

\* C11 witness: a call on one handle has resolved while a call made on a
\* different handle, with a different identifier, is still in flight.
C11_Witness ==
  /\ Fulfilled(InterleavedOps)
  /\ calls # << >>
  /\ calls[1].recv # done.recv
  /\ heap[calls[1].recv].id # heap[done.recv].id

\* C12 (as claimed): get, put and info on /containers/{id}/archive resolve on
\* status 200 and on no other status, and reject each of 400, 403, 404 and 500
\* with a reason of the table, which for 404 says the container does not
\* exist.
C12_ArchiveStatusTable ==
  (Settled(FsOps) /\ done.status # 0) =>
    /\ done.call.path[1] = "containers" /\ done.call.path[2] = done.target
    /\ done.call.method =
         (CASE done.op = "ContainerFs.get" -> "GET"
            [] done.op = "ContainerFs.put" -> "PUT"
            [] done.op = "ContainerFs.info" -> "HEAD")
    /\ (done.state = "fulfilled") <=> (done.status = 200)
    /\ done.status \in ArchiveStatuses =>
         /\ done.err.reason # "undefined"
         /\ done.status = 404 => done.err.reason = "no such container"

\* C13 (as claimed): pause answered with the conflict status 409 rejects with
\* a conflict reason of the method's table: it neither resolves nor rejects
\* with an error that has no reason.
C13_PauseConflictSurfaced ==
  (Settled({"Container.pause"}) /\ done.status = 409) =>
    /\ done.state = "rejected"
    /\ done.err.reason # "undefined"

SameHandleOps == TransitionOps \ {"Container.update"}

\* C14 (as claimed): a successful start, stop, restart, kill, pause, unpause
\* or rename resolves with the receiver itself, its identifier, snapshot and
\* warnings unchanged; a successful update resolves with a handle that has the
\* receiver's identifier and the receiver's snapshot and differs from the
\* receiver only in the warnings, which are those the daemon returned.
C14_TransitionKeepsHandle ==
  /\ Fulfilled(SameHandleOps) =>
       /\ done.value = [this |-> done.recv]
       /\ heap[done.recv] = done.atIssue
  /\ Fulfilled({"Container.update"}) =>
       /\ "handle" \in DOMAIN done.value
       /\ done.value.handle.id = done.atIssue.id
       /\ done.value.handle.data = done.atIssue.data
       /\ done.value.handle.Warnings = done.data

\* C14 (amended): the seven resolve with the receiver itself, unchanged; a
\* successful update resolves with a newly constructed container handle that
\* has the receiver's identifier, no snapshot, and the value the daemon
\* returned as its warnings, and the receiver is left as it was.
C14_UpdateResolvesNewHandle ==
  /\ Fulfilled(SameHandleOps) =>
       /\ done.value = [this |-> done.recv]
       /\ heap[done.recv] = done.atIssue
  /\ Fulfilled({"Container.update"}) =>
       /\ "handle" \in DOMAIN done.value
       /\ done.value.handle.kind = "Container"
       /\ done.value.handle.id = done.atIssue.id
       /\ done.value.handle.data = UndefinedData
       /\ done.value.handle.Warnings = done.data
       /\ heap = done.before
       /\ heap[done.recv] = done.atIssue

\* C14 witness: update succeeds on a handle that holds a snapshot.
C14_Witness ==
  /\ Fulfilled({"Container.update"})
  /\ done.atIssue.data \in Bodies
  /\ done.data # NoWarnings

\* the methods declared with an options parameter
OptionOps == Ops \ NoArgOps

\* C15 (as claimed): for every method that takes an options record, commit
\* and ContainerFs.get included, the options of the call descriptor are the
\* record the caller passed, key for key, and the caller's record is after the
\* call as it was before.
C15_OptionsVerbatim ==
  /\ \A i \in InFlight :
       (calls[i].op \in OptionOps /\ calls[i].arg.given) =>
         /\ calls[i].call.options = calls[i].arg
         /\ calls[i].callerOpts = calls[i].arg
  /\ (Settled(OptionOps) /\ done.arg.given) =>
       /\ done.call.options = done.arg
       /\ done.callerOpts = done.arg

\* the caller's record as commit leaves it
CommitWritten(c) ==
  IF c.op = "Container.commit" THEN [c.arg EXCEPT !.container = c.atIssue.id] ELSE c.arg

\* C15 (amended): for every method that takes an options record except
\* commit, the options of the call descriptor are the record the caller
\* passed and that record is left as it was; commit sets the key `container`
\* of the caller's record to the receiver's identifier, replacing a value the
\* caller gave, changes no other key, and places that record in the
\* descriptor.
C15_OptionsVerbatimButCommit ==
  /\ \A i \in InFlight :
       (calls[i].op \in OptionOps /\ calls[i].arg.given) =>
         /\ calls[i].call.options = CommitWritten(calls[i])
         /\ calls[i].callerOpts = CommitWritten(calls[i])
  /\ (Settled(OptionOps) /\ done.arg.given) =>
       /\ done.call.options = CommitWritten(done)
       /\ done.callerOpts = CommitWritten(done)

\* C15 witness: commit has been called with a record that names another
\* container and holds another key.
C15_Witness ==
  /\ Settled({"Container.commit"})
  /\ done.arg.given
  /\ done.arg.container # "undefined"
  /\ done.arg.container # done.atIssue.id
  /\ done.arg.path # "undefined"

\* C16: get(id) on the container manager and on an exec manager makes no
\* call of the transport and returns a new handle whose identifier is the id
\* given, with no snapshot; an exec handle's owning container is the
\* manager's container.  It does so too when the daemon no longer has the
\* container.
C16_GetIsLocal ==
  Settled(GetOps) =>
    /\ calls = done.inFlight
    /\ done.value.handle.id = done.id
    /\ done.value.handle.Warnings = NoWarnings
    /\ IF done.op = "default.get"
       THEN /\ done.value.handle.kind = "Container"
            /\ done.value.handle.data = UndefinedData
       ELSE /\ done.value.handle.kind = "Exec"
            /\ done.value.handle.data = EmptyObject
            /\ done.value.handle.container = done.recv

\* C16 witness: an exec manager's get has returned while a call is in flight
\* on its container, which the daemon has removed.
C16_Witness ==
  /\ Settled({"ExecManager.get"})
  /\ done.stale
  /\ done.id # heap[done.recv].id
  /\ calls # << >>

\* C17 (as claimed): the handle a successful Exec.status resolves with has
\* the receiver's identifier and the receiver's owning container, whatever
\* body the daemon returned, as the handle of Container.status has the
\* receiver's identifier.
C17_ExecStatusSameInstance ==
  /\ Fulfilled({"Container.status"}) => done.value.handle.id = done.atIssue.id
  /\ Fulfilled({"Exec.status"}) =>
       /\ done.value.handle.kind = "Exec"
       /\ done.value.handle.container = done.atIssue.container
       /\ done.value.handle.id = done.atIssue.id

====
